---- MODULE Spec2Model ----
(***************************************************************************)
(* A state-machine model of the dmc.token accounting engine                *)
(* (src/contracts/dmc.token/src/dmc.cpp): billing, ordering/escrow, the    *)
(* weighted stake pool, minting, bonus accrual, liquidation and the price  *)
(* oracle.                                                                 *)
(*                                                                         *)
(* Conventions                                                             *)
(*  - every contract action is one atomic step; a failed check() aborts    *)
(*    the transaction, so a failing call is a step that is not enabled.    *)
(*  - a C++ double is an exact rational <<numerator, denominator>> with a  *)
(*    positive denominator in lowest terms; uint64_max, which the code     *)
(*    uses as the "infinite" rate, is <<1, 0>> and compares above every    *)
(*    rational.  Rounding of the 53-bit mantissa is not modelled.          *)
(*  - an extended_asset is its integer amount; the symbol is fixed by the  *)
(*    table or ledger that holds it (dmc, pst).                            *)
(*  - a sha256 digest is the tuple of the hashed fields (no collisions     *)
(*    between different inputs); a probed order id is <<digest, k>>.       *)
(***************************************************************************)
EXTENDS Integers, Sequences, FiniteSets, TLC

(***************************************************************************)
(* Bounds of the model                                                     *)
(***************************************************************************)
MaxTime == 2
MaxCalls == 6
StartTime == 4
MaxOrders == 2
OrderIdBits == 2
MaxBills == 2
MaxLocks == 3
MaxSamples == 3
PriceFracBits == 1
PriceIntBits == 3

(***************************************************************************)
(* Constants of dmc.token.hpp / utils.hpp (not part of src/), scaled to    *)
(* the model's time and amounts.                                           *)
(***************************************************************************)
default_service_interval == 1
default_order_service_epoch == 1
default_dmc_claims_interval == 1
default_bill_dmc_claims_interval == 2
default_benchmark_stake_rate == 100
default_penalty_rate == 30
default_initial_price == 1
incentive_rate == 2
maker_change_rate_interval == 2
price_fluncuation_interval == 1
static_weights == 4
day_sec == 1
required_size == 20
uint64_max == <<1, 0>>

Accounts == {"m1", "m2", "u1"}
system_account == "dmcsys"
Memos == {"memo"}
GarbagePrices == {<<0, 1>>, <<1, 1>>}
\* eosio::days(d) in seconds
days(d) == d * 86400

(***************************************************************************)
(* double arithmetic on exact rationals                                    *)
(***************************************************************************)
RECURSIVE Gcd(_, _)
Gcd(a, b) == IF b = 0 THEN a ELSE Gcd(b, a % b)

Abs(x) == IF x < 0 THEN -x ELSE x

Rat(n, d) ==
    LET s == IF d < 0 THEN -1 ELSE 1
        g == Gcd(Abs(n), Abs(d))
    IN  IF d = 0 THEN uint64_max ELSE <<(s * n) \div g, (s * d) \div g>>

IntR(n) == <<n, 1>>
IsInf(a) == a[2] = 0
RAdd(a, b) == Rat(a[1] * b[2] + b[1] * a[2], a[2] * b[2])
RSub(a, b) == Rat(a[1] * b[2] - b[1] * a[2], a[2] * b[2])
RMul(a, b) == Rat(a[1] * b[1], a[2] * b[2])
RDiv(a, b) == Rat(a[1] * b[2], a[2] * b[1])
RLt(a, b) == a[1] * b[2] < b[1] * a[2]
RLe(a, b) == a[1] * b[2] <= b[1] * a[2]
RFloor(a) == a[1] \div a[2]
RCeil(a) == -((-a[1]) \div a[2])
RTrunc(a) == IF a[1] >= 0 THEN RFloor(a) ELSE RCeil(a)

Pow2(n) == 2 ^ n

(***************************************************************************)
(* State                                                                   *)
(***************************************************************************)
VARIABLES
    now,        \* current_time_point(), in seconds
    dmc,        \* accounts table: free DMC balance of every account
    pst,        \* accounts table: free PST balance of every account
    locked,     \* lock_add_balance: time-locked credits, in order of creation
    bills,      \* bill_stats, scoped by owner, in primary-key order
    orders,     \* dmc_orders, in order of creation
    challenges, \* dmc_challenges, in order of creation
    makers,     \* dmc_makers: maker -> record
    pool,       \* dmc_maker_pool, scoped by maker: depositor -> weight
    minted,     \* pststats: maker -> minted PST amount
    config,     \* dmc_global: key -> value
    prices,     \* price_table, by time
    avgrow,     \* avg_table: empty, or the single aggregate row
    calls,      \* number of contract calls applied so far (bounds the runs)
    rate_changes \* the setmakerbstr actions applied so far, in order

vars == <<now, dmc, pst, locked, bills, orders, challenges, makers, pool,
          minted, config, prices, avgrow, calls, rate_changes>>

(***************************************************************************)
(* Config store and asset conversions                                      *)
(***************************************************************************)
get_dmc_config(key, default_value) ==
    IF key \in DOMAIN config THEN config[key] ELSE default_value

\* utils.hpp: the value of an asset as a double.
get_real_asset(amount) == IntR(amount)

\* utils.hpp: get_asset_by_amount<double, std::ceil> / <double, std::floor>.
get_asset_by_amount_ceil(x) == RCeil(x)
get_asset_by_amount_floor(x) == RFloor(x)

\* The accounts ledger: sub_balance fails on an overdrawn balance.
can_sub_balance(bal, owner, amount) == bal[owner] >= amount
sub_balance(bal, owner, amount) == [bal EXCEPT ![owner] = @ - amount]
add_balance(bal, owner, amount) == [bal EXCEPT ![owner] = @ + amount]

\* pststats: change_pst adds a (possibly negative) amount to the maker's row.
change_pst(tbl, owner, amount) == [tbl EXCEPT ![owner] = @ + amount]

(***************************************************************************)
(* Price oracle                                                            *)
(***************************************************************************)
get_dmc_rate(rate_value) ==
    LET value == Rat(rate_value, 100)
    IN  IF avgrow = <<>>
        THEN RMul(value, IntR(get_dmc_config("initalprice", default_initial_price)))
        ELSE RMul(value, avgrow[1].avg)

\* The eviction loop of trace_price_history.  `it = iter.erase(it)` moves it
\* to the next sample before `a.total -= it->price` reads it; when the erased
\* sample was the last one, it is end() and the read yields `garbage`.
RECURSIVE evict_loop(_, _, _, _, _)
evict_loop(ps, total, count, rtime, garbage) ==
    IF ps = <<>> \/ ~(Head(ps).created_at < rtime)
    THEN [ps |-> ps, total |-> total, count |-> count]
    ELSE LET rest == Tail(ps)
             read == IF rest = <<>> THEN garbage ELSE Head(rest).price
         IN  evict_loop(rest, RSub(total, read), count - 1, rtime, garbage)

trace_price_history(price, bill_id, garbage) ==
    LET rtime == now - price_fluncuation_interval
        a0 == IF avgrow = <<>>
              THEN [total |-> IntR(0), count |-> 0, avg |-> IntR(0)]
              ELSE avgrow[1]
        ev == evict_loop(prices, a0.total, a0.count, rtime, garbage)
        total == RAdd(ev.total, price)
        count == ev.count + 1
    IN  [prices |-> Append(ev.ps, [bill_id |-> bill_id, price |-> price,
                                   created_at |-> now]),
         avgrow |-> << [total |-> total, count |-> count,
                        avg |-> RDiv(total, IntR(count))] >>]

(***************************************************************************)
(* Stake pool helpers                                                      *)
(***************************************************************************)
cal_current_rate(dmc_amount, minted_amount) ==
    IF minted_amount # 0
    THEN RDiv(get_real_asset(dmc_amount), IntR(minted_amount))
    ELSE uint64_max

(***************************************************************************)
(* Bills and bonus accrual                                                 *)
(***************************************************************************)
\* byid index: the first row (lowest primary key) with this bill_id, or 0.
find_bill(bs, bill_id) ==
    IF \E i \in 1..Len(bs) : bs[i].bill_id = bill_id
    THEN CHOOSE i \in 1..Len(bs) :
            /\ bs[i].bill_id = bill_id
            /\ \A j \in 1..(i - 1) : bs[j].bill_id # bill_id
    ELSE 0

remove_at(s, i) == SubSeq(s, 1, i - 1) \o SubSeq(s, i + 1, Len(s))

available_primary_key(bs) ==
    IF bs = <<>> THEN 0 ELSE bs[Len(bs)].primary + 1

\* get_dmc_by_vrsi (not in src/): the reward valued in DMC at the current price.
get_dmc_by_vrsi(quantity) ==
    RFloor(RMul(IntR(quantity),
                IF avgrow = <<>>
                THEN IntR(get_dmc_config("initalprice", default_initial_price))
                ELSE avgrow[1].avg))

calbonus_max(b) ==
    b.created_at + get_dmc_config("billinter", default_bill_dmc_claims_interval)

\* The timestamp calbonus returns: now, capped at created_at + billinter.
calbonus_now(b) == IF now >= calbonus_max(b) THEN calbonus_max(b) ELSE now

\* calbonus aborts without a maker record, and on "subtractive overflow".
calbonus_ok(owner, b) ==
    /\ owner \in DOMAIN makers
    /\ (b.updated_at <= calbonus_max(b) => calbonus_now(b) >= b.updated_at)

\* The reward quantity of calbonus, in RSI, before its conversion to DMC.
calbonus_quantity(b) ==
    IF b.updated_at <= calbonus_max(b)
    THEN LET duration == calbonus_now(b) - b.updated_at
             unit == get_asset_by_amount_floor(
                        Rat(incentive_rate
                              * get_dmc_config("bmrate", default_benchmark_stake_rate),
                            100 * default_bill_dmc_claims_interval))
         IN  unit * duration * b.unmatched
    ELSE 0

\* The DMC amount calbonus adds to the maker's total_staked (0: no change).
calbonus_dmc(b) ==
    LET quantity == calbonus_quantity(b)
        dmc_quantity == IF quantity # 0 THEN get_dmc_by_vrsi(quantity) ELSE 0
    IN  IF dmc_quantity > 0 THEN dmc_quantity ELSE 0

(***************************************************************************)
(* Initial state: empty tables, funded DMC accounts                        *)
(***************************************************************************)
InitDmc == 6

EmptyFn == [x \in {} |-> 0]

Init ==
    /\ now = StartTime
    /\ dmc = [a \in Accounts \cup {system_account} |->
                 IF a \in Accounts THEN InitDmc ELSE 0]
    /\ pst = [a \in Accounts |-> 0]
    /\ locked = <<>>
    /\ bills = [a \in Accounts |-> <<>>]
    /\ orders = <<>>
    /\ challenges = <<>>
    /\ makers = EmptyFn
    /\ pool = [a \in Accounts |-> EmptyFn]
    /\ minted = [a \in Accounts |-> 0]
    /\ config = EmptyFn
    /\ prices = <<>>
    /\ avgrow = <<>>
    /\ calls = 0
    /\ rate_changes = <<>>

\* f with key k bound to v (added or replaced), and f without key k.
Put(f, k, v) == [x \in DOMAIN f \cup {k} |-> IF x = k THEN v ELSE f[x]]
Drop(f, k) == [x \in DOMAIN f \ {k} |-> f[x]]

(***************************************************************************)
(* The host's clock                                                        *)
(***************************************************************************)
Tick ==
    /\ now < StartTime + MaxTime
    /\ now' = now + 1
    /\ UNCHANGED <<dmc, pst, locked, bills, orders, challenges, makers, pool,
                   minted, config, prices, avgrow, calls, rate_changes>>

\* One contract call: the host applies A as one transaction.
Call(A) ==
    /\ calls < MaxCalls
    /\ calls' = calls + 1
    /\ A
    /\ UNCHANGED rate_changes

(***************************************************************************)
(* bill / unbill                                                           *)
(***************************************************************************)
price_encode(price) == RFloor(RMul(price, IntR(Pow2(PriceFracBits))))
price_decode(price_t) == Rat(price_t, Pow2(PriceFracBits))

bill_id_of(owner, amount, price_t, memo) == <<owner, amount, price_t, now, memo>>

new_bill(bs, owner, amount, price_t, expire_on, deposit_ratio, memo) ==
    [primary |-> available_primary_key(bs),
     bill_id |-> bill_id_of(owner, amount, price_t, memo),
     unmatched |-> amount,
     matched |-> 0,
     price |-> price_t,
     created_at |-> now,
     updated_at |-> now,
     expire_on |-> expire_on,
     deposit_ratio |-> deposit_ratio]

Bill(owner, amount, price, expire_on, deposit_ratio, memo) ==
    /\ RLe(<<1, 10000>>, price) /\ RLt(price, IntR(Pow2(PriceIntBits)))
    /\ amount > 0
    /\ deposit_ratio >= 0
    /\ expire_on >= now + get_dmc_config("serverinter", default_service_interval)
    /\ can_sub_balance(pst, owner, amount)
    /\ Len(bills[owner]) < MaxBills
    /\ pst' = sub_balance(pst, owner, amount)
    /\ bills' = [bills EXCEPT ![owner] =
                    Append(@, new_bill(@, owner, amount, price_encode(price),
                                       expire_on, deposit_ratio, memo))]
    /\ UNCHANGED <<now, dmc, locked, orders, challenges, makers, pool, minted,
                   config, prices, avgrow>>

\* The maker table after calbonus(owner, b).
calbonus_makers(owner, b) ==
    IF calbonus_dmc(b) > 0
    THEN [makers EXCEPT ![owner].total_staked = @ + calbonus_dmc(b)]
    ELSE makers

Unbill(owner, bill_id) ==
    LET i == find_bill(bills[owner], bill_id)
        b == bills[owner][i]
    IN  /\ i # 0
        /\ calbonus_ok(owner, b)
        /\ makers' = calbonus_makers(owner, b)
        /\ bills' = [bills EXCEPT ![owner] = remove_at(@, i)]
        /\ pst' = add_balance(pst, owner, b.unmatched)
        /\ UNCHANGED <<now, dmc, locked, orders, challenges, pool, minted,
                       config, prices, avgrow>>

(***************************************************************************)
(* setdmcconfig                                                            *)
(***************************************************************************)
SetDmcConfig(key, value) ==
    /\ (key = "claiminter" => value > 0)
    /\ config' = Put(config, key, value)
    /\ UNCHANGED <<now, dmc, pst, locked, bills, orders, challenges, makers,
                   pool, minted, prices, avgrow>>

(***************************************************************************)
(* increase                                                                *)
(***************************************************************************)
\* The weight bought by `amount` in a pool of total_staked / total_weight.
increase_new_weight(amount, mk) ==
    RMul(Rat(amount, mk.total_staked), mk.total_weight)

\* Mutant: the ratio is taken upside down.
increase_rate_ok_inverted(miner_weight, total_weight, miner_rate) ==
    RLe(miner_rate, RDiv(total_weight, miner_weight))

\* The minimum-share check that ends increase.
increase_rate_ok(miner_weight, total_weight, miner_rate) ==
    RLe(miner_rate, RDiv(miner_weight, total_weight))

new_maker(amount, miner) ==
    [current_rate |-> cal_current_rate(amount, minted[miner]),
     miner_rate |-> IntR(1),
     total_weight |-> IntR(static_weights),
     total_staked |-> amount,
     benchmark_stake_rate |->
         get_dmc_config("bmrate", default_benchmark_stake_rate),
     rate_updated_at |-> 0]

\* Mutant: the bought weight replaces the depositor's weight.
increase_share_replace(p, owner, new_weight) == Put(p, owner, new_weight)

\* The depositor's PoolShare after buying new_weight.
increase_share(p, owner, new_weight) ==
    IF owner \in DOMAIN p
    THEN [p EXCEPT ![owner] = RAdd(@, new_weight)]
    ELSE Put(p, owner, new_weight)

\* Mutant: any depositor opens the pool.
increase_bootstrap_any(owner, miner) == TRUE

\* Without a maker record only the maker itself opens the pool; any other
\* depositor meets check(false, "no such record").
increase_bootstrap_ok(owner, miner) == owner = miner

Increase(owner, amount, miner) ==
    /\ amount > 0
    /\ can_sub_balance(dmc, owner, amount)
    /\ dmc' = sub_balance(dmc, owner, amount)
    /\ IF miner \notin DOMAIN makers
       THEN /\ increase_bootstrap_ok(owner, miner)
            /\ owner \notin DOMAIN pool[miner]
            /\ makers' = Put(makers, miner, new_maker(amount, miner))
            /\ pool' = [pool EXCEPT ![miner] = Put(@, owner, IntR(static_weights))]
       ELSE LET mk == makers[miner]
                new_total == mk.total_staked + amount
                new_weight == increase_new_weight(amount, mk)
                total_weight == RAdd(mk.total_weight, new_weight)
                p1 == increase_share(pool[miner], owner, new_weight)
            IN  /\ mk.total_staked > 0
                \* a zero stake divides to inf / NaN, a negative one to a
                \* negative weight: both fail the two checks below
                /\ RLt(IntR(0), new_weight)
                /\ RLt(<<1, 10000>>, RDiv(new_weight, total_weight))
                /\ miner \in DOMAIN p1
                /\ increase_rate_ok(p1[miner], total_weight, mk.miner_rate)
                /\ makers' = [makers EXCEPT ![miner] =
                                [mk EXCEPT !.total_weight = total_weight,
                                           !.total_staked = new_total,
                                           !.current_rate =
                                               cal_current_rate(new_total, minted[miner])]]
                /\ pool' = [pool EXCEPT ![miner] = p1]
    /\ UNCHANGED <<now, pst, locked, bills, orders, challenges, minted, config,
                   prices, avgrow>>

(***************************************************************************)
(* redemption                                                              *)
(***************************************************************************)
\* The pool rows after the depositor's row is erased (rate = 1) or reduced.
redemption_pool(p, owner, rate) ==
    IF rate = IntR(1)
    THEN Drop(p, owner)
    ELSE [p EXCEPT ![owner] = RSub(@, RMul(@, rate))]

\* last_one: rate = 1 and exactly one row is left after the erase.
redemption_last_one(p, owner, rate) ==
    rate = IntR(1) /\ Cardinality(DOMAIN p \ {owner}) = 1

\* owner_weight as it stands after the rate = 1 branch.
redemption_owner_weight(p, owner, rate) ==
    IF redemption_last_one(p, owner, rate)
    THEN p[CHOOSE o \in DOMAIN p \ {owner} : TRUE]
    ELSE RMul(p[owner], rate)

\* Mutant: the share is rounded up.
redemption_quantity_ceil(mk, p, owner, rate) ==
    IF rate = IntR(1) /\ DOMAIN p \ {owner} = {}
    THEN mk.total_staked
    ELSE RCeil(RMul(IntR(mk.total_staked),
                    RDiv(RMul(p[owner], rate), mk.total_weight)))

\* rede_quantity: the whole stake when the pool empties, else the floor share.
redemption_quantity(mk, p, owner, rate) ==
    IF rate = IntR(1) /\ DOMAIN p \ {owner} = {}
    THEN mk.total_staked
    ELSE RFloor(RMul(IntR(mk.total_staked),
                     RDiv(RMul(p[owner], rate), mk.total_weight)))

\* Mutant: without `if (last_one) m.total_weight = owner_weight`.
redemption_total_weight_nolast(mk, p, owner, rate) ==
    RSub(mk.total_weight, redemption_owner_weight(p, owner, rate))

\* The total_weight the maker row is left with.
redemption_total_weight(mk, p, owner, rate) ==
    IF redemption_last_one(p, owner, rate)
    THEN redemption_owner_weight(p, owner, rate)
    ELSE RSub(mk.total_weight, redemption_owner_weight(p, owner, rate))

\* Mutant: the benchmark check is left out.
redemption_miner_ok_norate(mk, p1, miner, total_weight, total_staked, r) ==
    IF total_staked = 0
    THEN RLe(mk.miner_rate, uint64_max)
    ELSE /\ miner \in DOMAIN p1
         /\ RLe(mk.miner_rate, RDiv(p1[miner], total_weight))

\* The checks of the `miner == owner` branch.
redemption_miner_ok(mk, p1, miner, total_weight, total_staked, r) ==
    /\ RLe(get_dmc_rate(mk.benchmark_stake_rate), r)
    /\ IF total_staked = 0
       THEN RLe(mk.miner_rate, uint64_max)
       ELSE /\ miner \in DOMAIN p1
            /\ RLe(mk.miner_rate, RDiv(p1[miner], total_weight))

redemption_maturity == now + days(3 * day_sec)

\* Mutant: the maker row is kept whatever is left.
redemption_makers_keep(mks, miner, mk1) == [mks EXCEPT ![miner] = mk1]

\* The maker table: the row is erased when nothing is staked any more.
redemption_makers(mks, miner, mk1) ==
    IF mk1.total_staked = 0
    THEN Drop(mks, miner)
    ELSE [mks EXCEPT ![miner] = mk1]

Redemption(owner, rate, miner) ==
    /\ RLt(IntR(0), rate) /\ RLe(rate, IntR(1))
    /\ miner \in DOMAIN makers
    /\ owner \in DOMAIN pool[miner]
    /\ Len(locked) < MaxLocks
    /\ LET mk == makers[miner]
           p == pool[miner]
           p1 == redemption_pool(p, owner, rate)
           rede_quantity == redemption_quantity(mk, p, owner, rate)
           owner_weight == redemption_owner_weight(p, owner, rate)
           total_weight == RSub(mk.total_weight, owner_weight)
           total_staked == mk.total_staked - rede_quantity
           r == cal_current_rate(total_staked, minted[miner])
           final_weight == redemption_total_weight(mk, p, owner, rate)
       IN  /\ (rate # IntR(1) => RLt(IntR(0), p1[owner]))
           /\ (miner = owner =>
                 redemption_miner_ok(mk, p1, miner, total_weight, total_staked, r))
           /\ rede_quantity > 0
           /\ locked' = Append(locked, [owner |-> owner, quantity |-> rede_quantity,
                                        maturity |-> redemption_maturity])
           /\ makers' = redemption_makers(
                           makers, miner,
                           [mk EXCEPT !.total_weight = final_weight,
                                      !.total_staked = total_staked,
                                      !.current_rate = r])
           /\ IF total_staked = 0
              THEN TRUE
              ELSE /\ total_staked >= 0
                   /\ RLe(IntR(0), final_weight)
                   /\ (rate # IntR(1) =>
                         RLt(<<1, 10000>>, RDiv(p1[owner], final_weight)))
           /\ pool' = [pool EXCEPT ![miner] = p1]
    /\ UNCHANGED <<now, dmc, pst, bills, orders, challenges, minted, config,
                   prices, avgrow>>

(***************************************************************************)
(* mint                                                                    *)
(***************************************************************************)
\* std::floor(makerd_pst) >= added_asset, with makerd_pst = staked / benchmark
\* (a zero benchmark divides to +infinity for a positive stake, NaN for zero).
mint_within_max(total_staked, benchmark, added) ==
    IF benchmark[1] = 0
    THEN total_staked > 0
    ELSE RFloor(RDiv(get_real_asset(total_staked), benchmark)) >= added

\* Mutant: the amount already minted is left out.
mint_added_fresh(amount, existing) == amount

\* added_asset: the amount to mint plus the maker's pststats row.
mint_added(amount, existing) == amount + existing

Mint(owner, amount) ==
    /\ amount > 0
    /\ owner \in DOMAIN makers
    /\ LET mk == makers[owner]
           benchmark == get_dmc_rate(mk.benchmark_stake_rate)
           added == mint_added(amount, minted[owner])
           r == cal_current_rate(mk.total_staked, added)
       IN  /\ mint_within_max(mk.total_staked, benchmark, added)
           /\ RLe(benchmark, r)
           /\ pst' = add_balance(pst, owner, amount)
           /\ minted' = change_pst(minted, owner, amount)
           /\ makers' = [makers EXCEPT ![owner].current_rate = r]
    /\ UNCHANGED <<now, dmc, locked, bills, orders, challenges, pool, config,
                   prices, avgrow>>

(***************************************************************************)
(* setmakerrate / setmakerbstr                                             *)
(***************************************************************************)
SetMakerRate(owner, rate) ==
    /\ RLe(<<1, 5>>, rate) /\ RLe(rate, IntR(1))
    /\ owner \in DOMAIN makers
    /\ owner \in DOMAIN pool[owner]
    /\ RLe(rate, RDiv(pool[owner][owner], makers[owner].total_weight))
    /\ makers' = [makers EXCEPT ![owner].miner_rate = rate]
    /\ UNCHANGED <<now, dmc, pst, locked, bills, orders, challenges, pool,
                   minted, config, prices, avgrow>>

setmakerbstr_ok(mk, value) ==
    LET floor_rate == get_dmc_config("bmrate", default_benchmark_stake_rate)
    IN  IF mk.rate_updated_at = 0
        THEN value >= floor_rate
        ELSE /\ 10 * value <= 11 * mk.benchmark_stake_rate
             /\ 10 * value >= 9 * mk.benchmark_stake_rate
             /\ value >= floor_rate

SetMakerBstr(owner, value) ==
    /\ owner \in DOMAIN makers
    /\ owner \in DOMAIN pool[owner]
    /\ now >= makers[owner].rate_updated_at + maker_change_rate_interval
    /\ setmakerbstr_ok(makers[owner], value)
    /\ makers' = [makers EXCEPT ![owner].benchmark_stake_rate = value,
                                ![owner].rate_updated_at = now]
    /\ UNCHANGED <<now, dmc, pst, locked, bills, orders, challenges, pool,
                   minted, config, prices, avgrow>>

(***************************************************************************)
(* order                                                                   *)
(***************************************************************************)
\* Mutant: the payment is rounded down.
order_payment_floor(b, amount) ==
    get_asset_by_amount_floor(RMul(price_decode(b.price), IntR(amount)))

order_payment(b, amount) ==
    get_asset_by_amount_ceil(RMul(price_decode(b.price), IntR(amount)))

\* std::round of an integer product
order_deposit(b, amount) == order_payment(b, amount) * b.deposit_ratio

order_reserve_ok(b, amount, reserve) ==
    reserve >= order_payment(b, amount) + order_deposit(b, amount)

\* Mutant: the amount is checked against the whole bill, matched included.
order_amount_ok_total(b, amount) == b.unmatched + b.matched >= amount

order_amount_ok(b, amount) == b.unmatched >= amount

\* Mutant: the bill keeps its old updated_at.
order_bill_stale(b, amount) ==
    [b EXCEPT !.unmatched = @ - amount, !.matched = @ + amount]

\* The modify of the bill row in order.
order_bill(b, amount) ==
    [b EXCEPT !.unmatched = @ - amount,
              !.matched = @ + amount,
              !.updated_at = calbonus_now(b)]

\* name::value orders the accounts of the model like their names.
NameOrder ==
    <<"dmcsys", "ka", "kb", "kc", "kd", "ke", "kf", "kg", "kh", "ki", "kj",
      "kk", "kl", "km", "kn", "ko", "kp", "kq", "kr", "ks", "kt", "ku",
      "m1", "m2", "u1">>
name_value(a) == CHOOSE i \in 1..Len(NameOrder) : NameOrder[i] = a

\* order_id_args, the input of the digest.
order_digest(owner, miner, bill_id, amount, reserve, memo) ==
    <<owner, miner, bill_id, amount, reserve, memo, now>>

\* The first OrderIdBits bits of sha256(order_id_args): a mix of the fields
\* of the input, so that different inputs may give the same value.
order_hash(digest) ==
    (name_value(digest[1]) + name_value(digest[2])
       + digest[3][2] + digest[3][3] + digest[3][4]
       + digest[4] + digest[5] + digest[7]) % Pow2(OrderIdBits)

order_ids == {orders[i].order_id : i \in 1..Len(orders)}

\* Mutant: the digest is taken as it is.
order_probe_none(order_id) == order_id

\* while (order_tbl.find(order_id) != order_tbl.end()) order_id += 1
order_probe(order_id) ==
    LET k == CHOOSE k \in 0..Len(orders) :
                /\ (order_id + k) % Pow2(OrderIdBits) \notin order_ids
                /\ \A j \in 0..(k - 1) :
                      (order_id + j) % Pow2(OrderIdBits) \in order_ids
    IN  (order_id + k) % Pow2(OrderIdBits)

\* The rate stored by order: the stake less miner_lock_dmc, over the minted amount.
order_current_rate(total_staked, miner_lock_dmc, minted_amount) ==
    cal_current_rate(total_staked - miner_lock_dmc, minted_amount)

\* Mutant: the stake is debited by the lock.
order_total_staked_debit(total_staked, miner_lock_dmc) ==
    total_staked - miner_lock_dmc

\* The total_staked the order leaves in the maker record: the debit is
\* commented out, the stake stays as calbonus left it.
order_total_staked(total_staked, miner_lock_dmc) == total_staked

Order(owner, miner, bill_id, amount, reserve, memo, deposit_valid, garbage) ==
    LET i == find_bill(bills[miner], bill_id)
        b == bills[miner][i]
        user_to_pay == order_payment(b, amount)
        user_to_deposit == order_deposit(b, amount)
        staked == calbonus_makers(miner, b)[miner].total_staked
        r == cal_current_rate(staked, minted[miner])
        miner_lock_dmc == RTrunc(RMul(IntR(user_to_pay), r))
        order_id == order_probe(order_hash(order_digest(owner, miner, bill_id,
                                                       amount, reserve, memo)))
        traced == trace_price_history(price_decode(b.price), bill_id, garbage)
    IN  /\ owner # miner
        /\ amount > 0
        /\ reserve >= 0
        /\ i # 0
        /\ order_amount_ok(b, amount)
        /\ deposit_valid <= b.expire_on
        /\ deposit_valid >=
              now + get_dmc_config("ordsrvepoch", default_order_service_epoch)
        /\ order_reserve_ok(b, amount, reserve)
        /\ can_sub_balance(dmc, owner, reserve)
        /\ calbonus_ok(miner, b)
        \* user_to_pay * uint64_max does not convert to an int64 amount
        /\ ~IsInf(r)
        /\ Len(orders) < MaxOrders
        /\ dmc' = sub_balance(dmc, owner, reserve)
        /\ bills' = [bills EXCEPT ![miner][i] = order_bill(b, amount)]
        /\ makers' = [makers EXCEPT ![miner] =
                        [@ EXCEPT !.total_staked =
                                      order_total_staked(staked, miner_lock_dmc),
                                  !.current_rate =
                                      order_current_rate(staked, miner_lock_dmc,
                                                         minted[miner])]]
        /\ orders' = Append(orders,
                        [order_id |-> order_id,
                         user |-> owner,
                         miner |-> miner,
                         bill_id |-> bill_id,
                         user_pledge |-> reserve - user_to_pay - user_to_deposit,
                         miner_lock_pst |-> amount,
                         miner_lock_dmc |-> miner_lock_dmc,
                         settlement_pledge |-> 0,
                         lock_pledge |-> user_to_pay,
                         price |-> user_to_pay,
                         state |-> "OrderStateWaiting",
                         deposit |-> user_to_deposit,
                         deposit_valid |-> deposit_valid])
        /\ challenges' = Append(challenges,
                            [order_id |-> order_id,
                             state |-> "ChallengePrepare",
                             user_lock |-> 0,
                             miner_pay |-> 0])
        /\ prices' = traced.prices
        /\ avgrow' = traced.avgrow
        /\ UNCHANGED <<now, pst, locked, pool, minted, config>>

(***************************************************************************)
(* liquidation                                                             *)
(***************************************************************************)
\* byrate index: ascending current_rate, ties by primary key.
rate_before(mks, x, y) ==
    \/ RLt(mks[x].current_rate, mks[y].current_rate)
    \/ /\ ~RLt(mks[y].current_rate, mks[x].current_rate)
       /\ name_value(x) <= name_value(y)

RECURSIVE by_rate(_, _)
by_rate(mks, S) ==
    IF S = {} THEN <<>>
    ELSE LET first == CHOOSE x \in S : \A y \in S : rate_before(mks, x, y)
         IN  <<first>> \o by_rate(mks, S \ {first})

\* maker::get_n (dmc.token.hpp): the maker's own benchmark_stake_rate.
get_n(mk) == mk.benchmark_stake_rate

\* The loop condition of the scan, for the maker under the iterator.
liq_below_benchmark(mk) == RLt(mk.current_rate, get_dmc_rate(get_n(mk)))

\* (1 - r1 / m)
liq_shortfall(mk) ==
    RSub(IntR(1), RDiv(mk.current_rate, get_dmc_rate(mk.benchmark_stake_rate)))

liq_target_pst(mk, minted_amount) ==
    get_asset_by_amount_ceil(RMul(liq_shortfall(mk), get_real_asset(minted_amount)))

liq_penalty(mk, r1mk) ==
    get_asset_by_amount_ceil(
        RMul(RMul(liq_shortfall(r1mk), get_real_asset(mk.total_staked)),
             Rat(get_dmc_config("penaltyrate", default_penalty_rate), 100)))

Min(a, b) == IF a <= b THEN a ELSE b
Max(a, b) == IF a >= b THEN a ELSE b

\* The loop over the maker's bills: drain unmatched PST, oldest row first.
\* Mutant: the whole leftover is taken from the bill.
liq_sub_pst_all(unmatched, leftover) == leftover

\* sub_pst: what one bill gives up, its unmatched amount at most.
liq_sub_pst(unmatched, leftover) ==
    IF unmatched <= leftover THEN unmatched ELSE leftover

RECURSIVE liq_bills(_, _, _, _, _)
liq_bills(bs, i, leftover, bonus, ok) ==
    IF i > Len(bs) \/ leftover <= 0
    THEN [bills |-> bs, leftover |-> leftover, bonus |-> bonus, ok |-> ok]
    ELSE LET bit == bs[i]
             whole == bit.unmatched <= leftover
             sub_pst == liq_sub_pst(bit.unmatched, leftover)
             left1 == IF whole THEN leftover - bit.unmatched ELSE 0
             \* calbonus looks the bill up by its id
             cb == bs[find_bill(bs, bit.bill_id)]
             ok1 == ok /\ (cb.updated_at <= calbonus_max(cb)
                             => calbonus_now(cb) >= cb.updated_at)
             b1 == [bit EXCEPT !.unmatched = @ - sub_pst,
                               !.updated_at = calbonus_now(cb)]
         IN  IF b1.unmatched = 0
             THEN liq_bills(remove_at(bs, i), i, left1,
                            bonus + calbonus_dmc(cb), ok1)
             ELSE liq_bills([bs EXCEPT ![i] = b1], i + 1, left1,
                            bonus + calbonus_dmc(cb), ok1)

\* One iteration of the scan, on maker `owner`.  st holds the tables as the
\* scan has left them and the queue liquidation_required.
liq_scan_maker(owner, st) ==
    LET mk == st.makers[owner]
        benchmark == get_dmc_rate(mk.benchmark_stake_rate)
        origin == liq_target_pst(mk, minted[owner])
        pst_sub == Min(origin, st.pst[owner])
        leftover == Max(origin - pst_sub, 0)
        drained == liq_bills(st.bills[owner], 1, leftover, 0, TRUE)
        mk1 == [mk EXCEPT !.total_staked = @ + drained.bonus]
        sub_pst_asset == origin - drained.leftover
        penalty == liq_penalty(mk1, mk)
    IN  IF benchmark[1] = 0
        THEN [st EXCEPT !.ok = FALSE]   \* r1 / 0: the amounts do not convert
        ELSE [makers |-> [st.makers EXCEPT ![owner] = mk1],
              pst |-> [st.pst EXCEPT ![owner] = @ - pst_sub],
              bills |-> [st.bills EXCEPT ![owner] = drained.bills],
              queue |-> IF sub_pst_asset # 0 /\ penalty # 0
                        THEN Append(st.queue, <<owner, sub_pst_asset, penalty>>)
                        ELSE st.queue,
              ok |-> st.ok /\ drained.ok]

RECURSIVE liq_scan(_, _, _)
liq_scan(idx, k, st) ==
    IF k > Len(idx) \/ ~st.ok
       \/ ~liq_below_benchmark(st.makers[idx[k]])
       \/ ~(Len(st.queue) < required_size)
    THEN st
    ELSE liq_scan(idx, k + 1, liq_scan_maker(idx[k], st))

\* The apply loop over liquidation_required.
RECURSIVE liq_apply(_, _, _)
liq_apply(queue, k, st) ==
    IF k > Len(queue) THEN st
    ELSE LET miner == queue[k][1]
             pst_q == queue[k][2]
             dmc_q == queue[k][3]
             minted1 == change_pst(st.minted, miner, -pst_q)
             new_staked == st.makers[miner].total_staked - dmc_q
         IN  liq_apply(queue, k + 1,
                 [makers |-> [st.makers EXCEPT
                                 ![miner].total_staked = new_staked,
                                 ![miner].current_rate =
                                     cal_current_rate(new_staked, minted1[miner])],
                  minted |-> minted1,
                  dmc |-> add_balance(st.dmc, system_account, dmc_q)])

liq_scanned ==
    liq_scan(by_rate(makers, DOMAIN makers), 1,
             [makers |-> makers, pst |-> pst, bills |-> bills,
              queue |-> <<>>, ok |-> TRUE])

Liquidation ==
    LET scanned == liq_scanned
        applied == liq_apply(scanned.queue, 1,
                             [makers |-> scanned.makers, minted |-> minted,
                              dmc |-> dmc])
    IN  /\ scanned.ok
        /\ makers' = applied.makers
        /\ minted' = applied.minted
        /\ dmc' = applied.dmc
        /\ pst' = scanned.pst
        /\ bills' = scanned.bills
        /\ UNCHANGED <<now, locked, orders, challenges, pool, config, prices,
                       avgrow>>

(***************************************************************************)
(* Inputs of the model and the specification                               *)
(***************************************************************************)
Sellers == {"m1"}
Buyers == {"u1"}
StakeAmounts == {3}
MintAmounts == {1, 2, 3}
BillAmounts == {1, 2, 3}
BillPrices == {<<1, 2>>, <<1, 1>>, <<5, 2>>}
DepositRatios == {0, 1}
Reserves == {1, 5}
ConfigInputs == {<<"penaltyrate", 100>>}

bill_ids(a) == {bills[a][i].bill_id : i \in 1..Len(bills[a])}

BillCall ==
    Call(\E o \in Sellers, q \in BillAmounts, p \in BillPrices,
            d \in DepositRatios, memo \in Memos :
            Bill(o, q, p, now + default_service_interval + 1, d, memo))

UnbillCall ==
    Call(\E o \in Sellers : \E id \in bill_ids(o) : Unbill(o, id))

OrderCall ==
    Call(\E o \in Buyers, m \in Sellers, q \in BillAmounts, res \in Reserves,
            memo \in Memos, g \in GarbagePrices :
            \E id \in bill_ids(m) :
               Order(o, m, id, q, res, memo,
                     now + default_order_service_epoch, g))

IncreaseCall ==
    Call(\E o \in Sellers, q \in StakeAmounts, m \in Sellers : Increase(o, q, m))

MintCall ==
    Call(\E o \in Sellers, q \in MintAmounts : Mint(o, q))

SetDmcConfigCall ==
    Call(\E c \in ConfigInputs : SetDmcConfig(c[1], c[2]))

LiquidationCall == Call(Liquidation)

Next ==
    \/ Tick
    \/ BillCall
    \/ UnbillCall
    \/ OrderCall
    \/ IncreaseCall
    \/ MintCall
    \/ SetDmcConfigCall
    \/ LiquidationCall

Spec == Init /\ [][Next]_vars

(***************************************************************************)
(* The stake pool of one maker and its depositors                          *)
(***************************************************************************)
PoolMaker == "m1"
PoolStakeAmounts == {1, 2, 3}
PoolMintAmounts == {2}
RedeemRates == {<<1, 2>>, <<1, 1>>}
MakerRates == {<<1, 5>>, <<1, 2>>}

PoolIncrease ==
    Call(\E o \in Accounts, q \in PoolStakeAmounts : Increase(o, q, PoolMaker))

PoolRedemption ==
    Call(\E o \in Accounts, r \in RedeemRates : Redemption(o, r, PoolMaker))

PoolSetMakerRate ==
    Call(\E r \in MakerRates : SetMakerRate(PoolMaker, r))

PoolMint ==
    Call(\E q \in PoolMintAmounts : Mint(PoolMaker, q))

NextPool ==
    \/ PoolIncrease
    \/ PoolRedemption
    \/ PoolSetMakerRate
    \/ PoolMint

SpecPool == Init /\ [][NextPool]_vars

(***************************************************************************)
(* The price oracle, fed directly                                          *)
(***************************************************************************)
TracePrices == {<<1, 2>>, <<1, 1>>, <<5, 2>>}

TracePriceHistory(price, bill_id, garbage) ==
    LET traced == trace_price_history(price, bill_id, garbage)
    IN  /\ Len(prices) < MaxSamples
        /\ prices' = traced.prices
        /\ avgrow' = traced.avgrow
        /\ UNCHANGED <<now, dmc, pst, locked, bills, orders, challenges, makers,
                       pool, minted, config, calls, rate_changes>>

TracePriceCall ==
    \E p \in TracePrices, g \in GarbagePrices : TracePriceHistory(p, 0, g)

NextPrice ==
    \/ Tick
    \/ TracePriceCall

SpecPrice == Init /\ [][NextPrice]_vars

(***************************************************************************)
(* One maker changing its benchmark stake rate                             *)
(***************************************************************************)
BstrStakeAmounts == {1}
BstrValues == {90, 100, 110, 121, 130}

BstrIncrease ==
    Call(\E q \in BstrStakeAmounts : Increase(PoolMaker, q, PoolMaker))

BstrRedemption == Call(Redemption(PoolMaker, IntR(1), PoolMaker))

\* setmakerbstr, recorded in the history of applied actions.
BstrSetMakerBstr ==
    /\ calls < MaxCalls
    /\ calls' = calls + 1
    /\ \E v \in BstrValues :
          /\ SetMakerBstr(PoolMaker, v)
          /\ rate_changes' = Append(rate_changes,
                                    [owner |-> PoolMaker, at |-> now, value |-> v])

NextBstr ==
    \/ Tick
    \/ BstrIncrease
    \/ BstrRedemption
    \/ BstrSetMakerBstr

SpecBstr == Init /\ [][NextBstr]_vars

(***************************************************************************)
(* Many makers and one liquidation sweep                                   *)
(***************************************************************************)
MaxSweeps == 1
SweepMakers == SubSeq(NameOrder, 2, 22)
SweepSeller == "ka"
SweepAccounts == {SweepMakers[k] : k \in 1..Len(SweepMakers)} \cup Buyers
SweepStake == 3
SweepMint == 3
SweepPenaltyRates == {0, 30}

InitSweep ==
    /\ now = StartTime
    /\ dmc = [a \in SweepAccounts \cup {system_account} |->
                 IF a \in SweepAccounts THEN InitDmc ELSE 0]
    /\ pst = [a \in SweepAccounts |-> 0]
    /\ locked = <<>>
    /\ bills = [a \in SweepAccounts |-> <<>>]
    /\ orders = <<>>
    /\ challenges = <<>>
    /\ makers = EmptyFn
    /\ pool = [a \in SweepAccounts |-> EmptyFn]
    /\ minted = [a \in SweepAccounts |-> 0]
    /\ config = EmptyFn
    /\ prices = <<>>
    /\ avgrow = <<>>
    /\ calls = 0
    /\ rate_changes = <<>>

\* The makers open their pools one after the other, each minting at once.
SweepIncrease ==
    /\ orders = <<>>
    /\ \E k \in 1..Len(SweepMakers) :
          /\ SweepMakers[k] \notin DOMAIN makers
          /\ k > 1 => minted[SweepMakers[k - 1]] > 0
          /\ Increase(SweepMakers[k], SweepStake, SweepMakers[k])
    /\ UNCHANGED <<calls, rate_changes>>

SweepMintCall ==
    /\ orders = <<>>
    /\ \E m \in DOMAIN makers : minted[m] = 0 /\ Mint(m, SweepMint)
    /\ UNCHANGED <<calls, rate_changes>>

SweepBill ==
    /\ Bill(SweepSeller, 1, <<5, 2>>, now + default_service_interval + 1, 0, "memo")
    /\ UNCHANGED <<calls, rate_changes>>

SweepOrder ==
    /\ \E id \in bill_ids(SweepSeller), g \in GarbagePrices :
          Order("u1", SweepSeller, id, 1, 5, "memo",
                now + default_order_service_epoch, g)
    /\ UNCHANGED <<calls, rate_changes>>

SweepSetDmcConfig ==
    /\ calls = 0
    /\ \E v \in SweepPenaltyRates : SetDmcConfig("penaltyrate", v)
    /\ UNCHANGED <<calls, rate_changes>>

SweepLiquidation ==
    /\ calls < MaxSweeps
    /\ calls' = calls + 1
    /\ Liquidation
    /\ UNCHANGED rate_changes

NextSweep ==
    \/ Tick
    \/ SweepIncrease
    \/ SweepMintCall
    \/ SweepBill
    \/ SweepOrder
    \/ SweepSetDmcConfig
    \/ SweepLiquidation

SpecSweep == InitSweep /\ [][NextSweep]_vars

(***************************************************************************)
(* Bills touched while the bonus window is reconfigured                    *)
(***************************************************************************)
BonusIntervals == {1, 3}
BonusBillAmounts == {2}
BonusBillPrices == {<<1, 2>>}

BonusBill ==
    Call(\E o \in Sellers, q \in BonusBillAmounts, p \in BonusBillPrices :
            Bill(o, q, p, now + MaxTime + default_order_service_epoch, 0, "memo"))

BonusOrder ==
    Call(\E o \in Buyers, m \in Sellers, g \in GarbagePrices :
            \E id \in bill_ids(m) :
               Order(o, m, id, 1, 1, "memo", now + default_order_service_epoch, g))

BonusSetDmcConfig ==
    Call(\E v \in BonusIntervals : SetDmcConfig("billinter", v))

NextBonus ==
    \/ Tick
    \/ IncreaseCall
    \/ MintCall
    \/ BonusBill
    \/ BonusOrder
    \/ UnbillCall
    \/ BonusSetDmcConfig

SpecBonus == Init /\ [][NextBonus]_vars

(***************************************************************************)
(* Two makers with benchmarks of their own, and the liquidation scan       *)
(***************************************************************************)
ScanMakers == {"m1", "m2"}
ScanMintAmounts == {2, 3}
ScanBstrValues == {200}

ScanIncrease ==
    Call(\E m \in ScanMakers, q \in StakeAmounts : Increase(m, q, m))

ScanMint ==
    Call(\E m \in ScanMakers, q \in ScanMintAmounts : Mint(m, q))

\* setmakerbstr, recorded in the history of applied actions.
ScanSetMakerBstr ==
    /\ calls < MaxCalls
    /\ calls' = calls + 1
    /\ \E m \in ScanMakers, v \in ScanBstrValues :
          /\ SetMakerBstr(m, v)
          /\ rate_changes' = Append(rate_changes,
                                    [owner |-> m, at |-> now, value |-> v])

NextScan ==
    \/ Tick
    \/ ScanIncrease
    \/ ScanMint
    \/ ScanSetMakerBstr
    \/ LiquidationCall

SpecScan == Init /\ [][NextScan]_vars

(***************************************************************************)
(* Liquidation under a configured penalty rate                             *)
(***************************************************************************)
DrainPenaltyRates == {0, 100}
DrainBillAmounts == {1, 2}
DrainBillPrices == {<<5, 2>>}

DrainBill ==
    Call(\E o \in Sellers, q \in DrainBillAmounts, p \in DrainBillPrices :
            Bill(o, q, p, now + default_service_interval + 1, 0, "memo"))

DrainSetDmcConfig ==
    Call(\E v \in DrainPenaltyRates : SetDmcConfig("penaltyrate", v))

NextDrain ==
    \/ Tick
    \/ IncreaseCall
    \/ MintCall
    \/ DrainBill
    \/ OrderCall
    \/ DrainSetDmcConfig
    \/ LiquidationCall

SpecDrain == Init /\ [][NextDrain]_vars

(***************************************************************************)
(* Properties                                                              *)
(***************************************************************************)
RECURSIVE weight_sum(_, _)
weight_sum(p, S) ==
    IF S = {} THEN IntR(0)
    ELSE LET o == CHOOSE x \in S : TRUE
         IN  RAdd(p[o], weight_sum(p, S \ {o}))

\* C1: for every maker, the weights of its PoolShare rows sum to its
\* total_weight, after any sequence of increase and redemption calls.
C1_WeightSum ==
    \A m \in DOMAIN makers :
        weight_sum(pool[m], DOMAIN pool[m]) = makers[m].total_weight

\* A pool of at least two depositors that has seen a redemption.
C1_Witness ==
    /\ PoolMaker \in DOMAIN makers
    /\ Cardinality(DOMAIN pool[PoolMaker]) >= 2
    /\ Len(locked) >= 1

\* C9: a rate = 1 redemption out of a pool of exactly two depositors removes
\* the redeemer's row and leaves the other depositor's weight equal to the
\* maker's total_weight.
C9_LastOne ==
    [][\A m \in DOMAIN makers :
          (/\ Len(locked') = Len(locked) + 1
           /\ Cardinality(DOMAIN pool[m]) = 2
           /\ DOMAIN pool'[m] # DOMAIN pool[m])
          => /\ m \in DOMAIN makers'
             /\ \E o \in DOMAIN pool[m] :
                   /\ DOMAIN pool'[m] = {o}
                   /\ locked'[Len(locked')].owner \notin DOMAIN pool'[m]
                   /\ pool'[m][o] = makers'[m].total_weight]_vars

\* u1 has redeemed its whole share out of the pool it shared with the maker
\* alone, its weight having differed from the maker's.
C9_Witness ==
    /\ PoolMaker \in DOMAIN makers
    /\ DOMAIN pool[PoolMaker] = {PoolMaker}
    /\ \E i \in 1..Len(locked) : locked[i].owner = "u1"
    /\ dmc["m2"] = InitDmc
    /\ makers[PoolMaker].total_weight = pool[PoolMaker][PoolMaker]

RECURSIVE price_sum(_)
price_sum(ps) ==
    IF ps = <<>> THEN IntR(0) ELSE RAdd(Head(ps).price, price_sum(Tail(ps)))

\* C3: after every trace_price_history call the aggregate matches the stored
\* samples: count is their number, total the sum of their prices, avg the
\* quotient, and no stored sample is older than the window of the last call.
C3_AggregateInSync ==
    avgrow # <<>> =>
        /\ avgrow[1].count = Len(prices)
        /\ avgrow[1].total = price_sum(prices)
        /\ avgrow[1].avg = RDiv(avgrow[1].total, IntR(avgrow[1].count))
        /\ \A i \in 1..Len(prices) :
              prices[i].created_at >=
                  prices[Len(prices)].created_at - price_fluncuation_interval

\* C2: every maker's stored current_rate is valued(total_staked) over its
\* minted amount, or uint64_max when nothing is minted.
C2_RateConsistent ==
    \A m \in DOMAIN makers :
        makers[m].current_rate = cal_current_rate(makers[m].total_staked, minted[m])

\* C4: no maker has a negative total_staked, total_weight or minted amount.
C4_NonNegative ==
    \A m \in DOMAIN makers :
        /\ makers[m].total_staked >= 0
        /\ RLe(IntR(0), makers[m].total_weight)
        /\ minted[m] >= 0

\* C5: unbill right after a successful bill succeeds, removes that bill and
\* leaves the owner's free PST balance as it was before bill.
C5_BillUnbill ==
    [][\A o \in Accounts :
          Len(bills'[o]) = Len(bills[o]) + 1
          => LET bs == bills'[o]
                 i == find_bill(bs, bs[Len(bs)].bill_id)
             IN  /\ o \in DOMAIN makers'
                 /\ i = Len(bs)
                 /\ pst'[o] + bs[i].unmatched = pst[o]]_vars

\* The order step of a transition, if it is one: the order it appended.
new_order == orders'[Len(orders')]

\* C6: an order of amount A on a bill with unmatched U and matched M is
\* applied only if A <= U, and leaves unmatched U - A and matched M + A.
C6_OrderMoves ==
    [][Len(orders') = Len(orders) + 1
       => LET o == new_order
              i == find_bill(bills[o.miner], o.bill_id)
              b == bills[o.miner][i]
              b1 == bills'[o.miner][i]
          IN  /\ i # 0
              /\ o.miner_lock_pst <= b.unmatched
              /\ b1.unmatched = b.unmatched - o.miner_lock_pst
              /\ b1.matched = b.matched + o.miner_lock_pst
              /\ b1.unmatched + b1.matched = b.unmatched + b.matched]_vars

\* A partly matched bill.
C6_Witness ==
    /\ Len(orders) >= 1
    /\ \E m \in Accounts : \E i \in 1..Len(bills[m]) :
          bills[m][i].matched > 0 /\ bills[m][i].unmatched > 0

C8_BonusIdempotent ==
    [][\A m \in Accounts : \A i \in 1..Len(bills'[m]) :
          (/\ now' = now
           /\ config' = config
           /\ \E j \in 1..Len(bills[m]) :
                 /\ bills[m][j].primary = bills'[m][i].primary
                 /\ bills[m][j] # bills'[m][i])
          => calbonus_quantity(bills'[m][i]) = 0]_vars

\* A bill touched by an order that accrued a bonus to the maker's stake.
C8_Witness ==
    /\ Len(orders) >= 1
    /\ \E m \in DOMAIN makers :
          /\ makers[m].total_staked + dmc[m] > InitDmc
          /\ \E i \in 1..Len(bills[m]) :
                bills[m][i].updated_at > bills[m][i].created_at

\* C10: a mint leaves the minted total at most floor(valued(total_staked) /
\* valued benchmark), grows the maker's PST balance and minted amount by the
\* same amount, and stores a current_rate >= the valued benchmark.
C10_MintBounded ==
    [][\A m \in DOMAIN makers :
          (/\ minted'[m] > minted[m]
           /\ makers'[m].total_staked = makers[m].total_staked)
          => LET benchmark == get_dmc_rate(makers[m].benchmark_stake_rate)
             IN  /\ (benchmark[1] # 0 =>
                       minted'[m] <=
                          RFloor(RDiv(get_real_asset(makers[m].total_staked),
                                      benchmark)))
                 /\ pst'[m] - pst[m] = minted'[m] - minted[m]
                 /\ RLe(benchmark, makers'[m].current_rate)]_vars

\* A maker that has minted twice.
C10_Witness ==
    \E m \in DOMAIN makers : minted[m] >= 3 /\ pst[m] >= 3

\* C11: the maker's own PoolShare weight over the maker's total_weight is at
\* least the maker's miner_rate, after any increase, redemption and
\* setmakerrate calls.
C11_MinerShare ==
    \A m \in DOMAIN makers :
        /\ m \in DOMAIN pool[m]
        /\ RLe(makers[m].miner_rate, RDiv(pool[m][m], makers[m].total_weight))

\* Another depositor holds a share while the maker's minimum is below 1.
C11_Witness ==
    /\ PoolMaker \in DOMAIN makers
    /\ DOMAIN pool[PoolMaker] \ {PoolMaker} # {}
    /\ RLt(makers[PoolMaker].miner_rate, IntR(1))
    /\ RLt(RDiv(pool[PoolMaker][PoolMaker], makers[PoolMaker].total_weight),
           IntR(1))

\* C13: every live bill has non-negative unmatched and matched; unmatched
\* never increases and decreases only by an order on that bill or by
\* liquidation; matched never decreases and changes only by an order.
C13_BillMonotone ==
    [][\A m \in Accounts : \A i \in 1..Len(bills'[m]) :
          LET b1 == bills'[m][i]
          IN  /\ b1.unmatched >= 0
              /\ b1.matched >= 0
              /\ \A j \in 1..Len(bills[m]) :
                    bills[m][j].primary = b1.primary
                    => LET b == bills[m][j]
                           ordered == /\ Len(orders') = Len(orders) + 1
                                      /\ new_order.miner = m
                                      /\ new_order.bill_id = b.bill_id
                       IN  /\ b1.unmatched <= b.unmatched
                           /\ b1.matched >= b.matched
                           /\ (b1.matched # b.matched
                                 => /\ ordered
                                    /\ b1.matched - b.matched
                                          = b.unmatched - b1.unmatched)
                           /\ (b1.unmatched # b.unmatched
                                 => \/ ordered
                                    \/ /\ orders' = orders
                                       /\ liq_below_benchmark(makers[m]))]_vars

\* A live bill that an order has matched in part and a liquidation has
\* drained in part (bill_id[2] is the amount it was created with).
C13_Witness ==
    \E m \in Accounts : \E i \in 1..Len(bills[m]) :
        /\ bills[m][i].matched > 0
        /\ bills[m][i].unmatched > 0
        /\ bills[m][i].unmatched + bills[m][i].matched < bills[m][i].bill_id[2]

\* The redemption step of a transition, if it is one: the lock it appended.
new_lock == locked'[Len(locked')]

\* C14: a redemption by the maker itself is applied only if the rate
\* recomputed on the stake it leaves is at least the valued benchmark, so it
\* never leaves a maker with a minted amount below its benchmark.
C14_MakerRedemption ==
    [][\A m \in DOMAIN makers :
          (/\ Len(locked') = Len(locked) + 1
           /\ new_lock.owner = m
           /\ pool'[m] # pool[m])
          => LET left == makers[m].total_staked - new_lock.quantity
                 benchmark == get_dmc_rate(makers[m].benchmark_stake_rate)
             IN  /\ RLe(benchmark, cal_current_rate(left, minted[m]))
                 /\ (m \in DOMAIN makers' =>
                       /\ makers'[m].total_staked = left
                       /\ RLe(benchmark, makers'[m].current_rate))
                 /\ (minted[m] > 0 => m \in DOMAIN makers')]_vars

\* A maker with a minted amount has redeemed part of its own stake.
C14_Witness ==
    /\ PoolMaker \in DOMAIN makers
    /\ minted[PoolMaker] > 0
    /\ \E i \in 1..Len(locked) : locked[i].owner = PoolMaker
    /\ makers[PoolMaker].current_rate # uint64_max

\* C15: setmakerbstr is applied only once the cooldown has passed since the
\* maker's previous applied change; a first change only if the value is at
\* least the global default, a later one only within [0.9, 1.1] times the
\* current value and at least the default; every maker's
\* benchmark_stake_rate is at least the global default.
C15_BstrCooldown ==
    [][/\ \A m \in DOMAIN makers' :
             makers'[m].benchmark_stake_rate >= default_benchmark_stake_rate
       /\ Len(rate_changes') = Len(rate_changes) + 1
          => LET c == rate_changes'[Len(rate_changes')]
                 before == {i \in 1..Len(rate_changes) :
                               rate_changes[i].owner = c.owner}
                 current == makers[c.owner].benchmark_stake_rate
             IN  /\ c.value >= default_benchmark_stake_rate
                 /\ makers'[c.owner].benchmark_stake_rate = c.value
                 /\ \A i \in before :
                       /\ c.at >= rate_changes[i].at + maker_change_rate_interval
                       /\ 10 * c.value <= 11 * current
                       /\ 10 * c.value >= 9 * current]_vars

changed_makers ==
    {m \in DOMAIN makers :
        \/ m \notin DOMAIN makers'
        \/ makers'[m].total_staked # makers[m].total_staked
        \/ minted'[m] # minted[m]
        \/ bills'[m] # bills[m]
        \/ pst'[m] # pst[m]}

\* C17: one liquidation changes the stake, minted amount, bills or PST
\* balance of at most 20 makers, each of them below its own valued benchmark
\* when the liquidation starts.
C17_LiquidationBatch ==
    [][calls' = calls + 1
       => /\ Cardinality(changed_makers) <= 20
          /\ \A m \in changed_makers : liq_below_benchmark(makers[m])]_vars

\* C18: a redemption removes the maker record if and only if it leaves a
\* total_staked of zero; a redemption that empties the pool pays out the
\* whole total_staked and removes the maker.
C18_MakerTeardown ==
    [][\A m \in DOMAIN makers :
          (/\ Len(locked') = Len(locked) + 1
           /\ pool'[m] # pool[m])
          => LET left == makers[m].total_staked - new_lock.quantity
             IN  /\ m \notin DOMAIN makers' <=> left = 0
                 /\ m \in DOMAIN makers' => makers'[m].total_staked = left
                 /\ DOMAIN pool'[m] = {}
                       => /\ new_lock.quantity = makers[m].total_staked
                          /\ m \notin DOMAIN makers']_vars

\* The maker has redeemed the last share and its record is gone.
C18_Witness ==
    /\ PoolMaker \notin DOMAIN makers
    /\ DOMAIN pool[PoolMaker] = {}
    /\ \E i \in 1..Len(locked) : locked[i].owner = PoolMaker

\* C19: whenever a bill is touched, its updated_at does not go back and is
\* at most created_at plus the claim interval in force, so that no second
\* of the window is rewarded twice.
C19_UpdatedAtMonotone ==
    [][\A m \in Accounts : \A i \in 1..Len(bills'[m]) :
          \A j \in 1..Len(bills[m]) :
             (/\ bills[m][j].primary = bills'[m][i].primary
              /\ bills[m][j] # bills'[m][i])
             => /\ bills'[m][i].updated_at >= bills[m][j].updated_at
                /\ bills'[m][i].updated_at <=
                      bills'[m][i].created_at
                         + get_dmc_config("billinter",
                                          default_bill_dmc_claims_interval)]_vars

\* A liquidation step, among the steps of increase, mint, setmakerbstr and
\* liquidation: the one call that adds no stake, mints nothing and changes
\* no benchmark.
liquidation_step ==
    /\ calls' = calls + 1
    /\ rate_changes' = rate_changes
    /\ pool' = pool
    /\ \A a \in DOMAIN pst : pst'[a] <= pst[a]

\* C20: a liquidation that queues fewer than 20 makers examines every maker
\* whose current_rate is below its own valued benchmark: each such maker
\* holding free PST has some of it taken.
C20_ScanComplete ==
    [][liquidation_step
       => \A m \in DOMAIN makers :
             (liq_below_benchmark(makers[m]) /\ pst[m] > 0)
             => pst'[m] < pst[m]]_vars

RECURSIVE unmatched_sum(_, _)
unmatched_sum(bs, i) ==
    IF i > Len(bs) THEN 0 ELSE bs[i].unmatched + unmatched_sum(bs, i + 1)

\* A liquidation step, among the steps of increase, mint, bill, order,
\* setdmcconfig and liquidation: the one call that adds no stake, no bill and
\* no order, mints nothing and leaves the configuration alone.
drain_step ==
    /\ calls' = calls + 1
    /\ orders' = orders
    /\ pool' = pool
    /\ config' = config
    /\ \A a \in DOMAIN pst :
          /\ pst'[a] <= pst[a]
          /\ minted'[a] <= minted[a]
          /\ Len(bills'[a]) <= Len(bills[a])

\* The PST a step takes from a maker's free balance and from its bills.
drained_pst(m) ==
    (pst[m] - pst'[m])
       + (unmatched_sum(bills[m], 1) - unmatched_sum(bills'[m], 1))

\* C21: in a liquidation, the PST taken from a maker's free balance and from
\* the unmatched amounts of its bills equals the reduction of its minted
\* amount, and is at most the target ceil(f * minted).
C21_DrainMatchesBurn ==
    [][drain_step
       => \A m \in DOMAIN makers :
             /\ drained_pst(m) = minted[m] - minted'[m]
             /\ drained_pst(m) <=
                   IF liq_below_benchmark(makers[m])
                   THEN liq_target_pst(makers[m], minted[m]) ELSE 0]_vars

\* A maker record without the two fields an order may rewrite.
maker_frame(mk) == [mk EXCEPT !.total_staked = 0, !.current_rate = IntR(0)]

\* C22: an order debits no staked collateral: every pool share and the
\* maker's total_weight are unchanged, total_staked grows by exactly the bonus
\* accrued on the touched bill and is not reduced by miner_lock_dmc, and of
\* the remaining maker fields only current_rate is rewritten.
C22_OrderNoDebit ==
    [][Len(orders') = Len(orders) + 1
       => LET o == new_order
              m == o.miner
              b == bills[m][find_bill(bills[m], o.bill_id)]
          IN  /\ pool' = pool
              /\ DOMAIN makers' = DOMAIN makers
              /\ makers'[m].total_weight = makers[m].total_weight
              /\ makers'[m].total_staked = makers[m].total_staked + calbonus_dmc(b)
              /\ makers'[m].total_staked >= makers[m].total_staked
              /\ maker_frame(makers'[m]) = maker_frame(makers[m])
              /\ \A x \in DOMAIN makers \ {m} : makers'[x] = makers[x]]_vars

\* An order that locks a non-zero miner_lock_dmc on a bill it touched later
\* than the bill's creation, the maker's stake having grown by a bonus.
C22_Witness ==
    \E i \in 1..Len(orders) :
        LET m == orders[i].miner
        IN  /\ orders[i].miner_lock_dmc > 0
            /\ m \in DOMAIN makers
            /\ makers[m].total_staked + dmc[m] > InitDmc
            /\ \E j \in 1..Len(bills[m]) :
                  /\ bills[m][j].bill_id = orders[i].bill_id
                  /\ bills[m][j].updated_at > bills[m][j].created_at

\* C23: no two orders share an order_id and every order has exactly one
\* challenge with its order_id (and every challenge an order); an order is
\* created in state Waiting, together with its challenge in state
\* ChallengePrepare with zero user_lock and miner_pay.
C23_OrderChallengePaired ==
    /\ [](/\ \A i, j \in 1..Len(orders) :
                orders[i].order_id = orders[j].order_id => i = j
          /\ \A i \in 1..Len(orders) :
                Cardinality({j \in 1..Len(challenges) :
                                challenges[j].order_id = orders[i].order_id}) = 1
          /\ \A j \in 1..Len(challenges) :
                challenges[j].order_id \in order_ids)
    /\ [][Len(orders') = Len(orders) + 1
          => /\ new_order.state = "OrderStateWaiting"
             /\ new_order.order_id \notin order_ids
             /\ Len(challenges') = Len(challenges) + 1
             /\ challenges'[Len(challenges')] =
                   [order_id |-> new_order.order_id,
                    state |-> "ChallengePrepare",
                    user_lock |-> 0,
                    miner_pay |-> 0]]_vars

\* Two orders placed with the same arguments in the same second, the second
\* one stored under the next identifier, each with its challenge.
C23_Witness ==
    /\ now = StartTime
    /\ Len(orders) = 2
    /\ Len(challenges) = 2
    /\ [orders[2] EXCEPT !.order_id = 0] = [orders[1] EXCEPT !.order_id = 0]
    /\ orders[2].order_id = (orders[1].order_id + 1) % Pow2(OrderIdBits)

\* C24: every maker record has a PoolShare row of the maker in its own
\* pool; a maker record appears only by the maker's own deposit, which opens
\* the pool with the maker's row; and the maker's row is removed only when
\* the maker is the sole depositor, the maker record going with it.
C24_MakerOwnsShare ==
    /\ [](\A m \in DOMAIN makers : m \in DOMAIN pool[m])
    /\ [][\A m \in DOMAIN pool :
             /\ (m \notin DOMAIN makers /\ m \in DOMAIN makers')
                => /\ DOMAIN pool'[m] = {m}
                   /\ dmc'[m] < dmc[m]
                   /\ \A a \in DOMAIN dmc \ {m} : dmc'[a] = dmc[a]
             /\ (m \in DOMAIN makers /\ m \in DOMAIN pool[m]
                   /\ m \notin DOMAIN pool'[m])
                => /\ DOMAIN pool[m] = {m}
                   /\ m \notin DOMAIN makers']_vars

\* The maker has left alone and last, after another depositor had come and
\* gone: its pool is empty and its stake waits in two or more locked credits.
C24_Witness ==
    /\ PoolMaker \notin DOMAIN makers
    /\ DOMAIN pool[PoolMaker] = {}
    /\ \E i, j \in 1..Len(locked) :
          /\ locked[i].owner = PoolMaker
          /\ locked[j].owner # PoolMaker

====
